---- MODULE Spec2Model ----
(***************************************************************************)
(* PixivDownloader: the batch driver (main.py), the sequential album       *)
(* downloader (album_downloader.py) and the worker functions of            *)
(* helpers/download_utils.py, as state machines.                           *)
(*                                                                         *)
(* Spec   : main() / process_urls() driving download_album() of            *)
(*          album_downloader.py, one run after another, over a persistent  *)
(*          file system (URLs.txt, already_downloaded.txt, Downloads/).    *)
(* SpecH  : the worker functions save_image_from_response and              *)
(*          save_gif_from_response of helpers/download_utils.py, one task  *)
(*          per page (or one archive task), tasks interleaved.             *)
(* SpecP  : the url functions of helpers/pixiv_utils.py and url_utils.py   *)
(*          and the frame order of create_gif, applied to inputs.          *)
(* SpecW  : the worker pool of one item; SpecWFair adds fairness.          *)
(* SpecM  : manage_running_tasks polling the futures of one item while the *)
(*          pool runs the tasks; SpecMFair adds fairness.                  *)
(***************************************************************************)
EXTENDS Integers, Sequences, FiniteSets, TLC

\* ------------------------------------------------------------------ bounds
MaxUrls == 2        \* lines of URLs.txt
MaxPages == 2       \* pageCount of an item
MaxRuns == 2        \* launches of main()
MaxMatches == 2     \* records of the payload whose userIllusts hold the id
MaxFrames == 2      \* frame files inside an archive
MaxChunks == 2      \* non-empty chunks of a response body

\* --------------------------------------------------------------- constants
FILE == "URLs.txt"
ALREADY_DOWNLOADED == "already_downloaded.txt"
DOWNLOAD_FOLDER == "Downloads"
HTTP_STATUS_OK == 200
NL == "\n"

\* illustType values; NoTag stands for a record without the key
\* (artwork.get('illustType') is None).
NoTag == -1
IllustTypes == {0, 1, 2, 3, NoTag}

\* Status codes the servers answer with in the model.
AssetStatuses == {200, 403, 404}
MetaStatuses == {200, 204, 404}

\* Lines of URLs.txt.  U1, U2: artwork pages; UN: on the host, no artwork
\* id; UX: another host.
U1 == "https://www.pixiv.net/en/artworks/1"
U2 == "https://www.pixiv.net/en/artworks/2"
UN == "https://www.pixiv.net/en/users/9"
UX == "https://example.org/artworks/3"
Urls == {U1, U2, UN, UX}

\* `HOST_BASE_LINK in url`
HasHostBaseLink(url) == url \in {U1, U2, UN}

\* re.search(r'artworks/(\d+)', url): the captured digits, "" for no match.
artwork_id_of(url) ==
  CASE url = U1 -> "1"
    [] url = U2 -> "2"
    [] url = UX -> "3"
    [] OTHER -> ""

\* ------------------------------------------------------------------- files
\* A text file is the sequence of the pieces written to it; NL is "\n".

\* read_file: file.read().splitlines()
RECURSIVE splitlines(_, _)
splitlines(content, line) ==
  IF content = <<>>
  THEN IF line = "" THEN <<>> ELSE <<line>>
  ELSE IF Head(content) = NL
       THEN <<line>> \o splitlines(Tail(content), "")
       ELSE splitlines(Tail(content), line \o Head(content))

read_file(content) == splitlines(content, "")

\* Mutation of write_file: append mode truncates as write mode does.
write_file_truncating(old, content, mode) ==
  IF mode = "a" THEN <<content, NL>>
  ELSE IF content = "" THEN <<>> ELSE <<content>>

\* write_file(filename, content, mode): the file's new content.
write_file(old, content, mode) ==
  IF mode = "a" THEN old \o <<content, NL>>
  ELSE IF content = "" THEN <<>> ELSE <<content>>

\* The text of a file holding the given lines, each ended by a newline.
RECURSIVE text_of(_)
text_of(lines) ==
  IF lines = <<>> THEN <<>> ELSE <<Head(lines), NL>> \o text_of(Tail(lines))

RECURSIVE SeqsUpTo(_, _)
SeqsUpTo(S, n) ==
  IF n = 0 THEN {<<>>}
  ELSE LET shorter == SeqsUpTo(S, n - 1)
       IN shorter \cup {Append(s, x) : s \in {t \in shorter : Len(t) = n - 1}, x \in S}

Range(s) == {s[i] : i \in 1..Len(s)}

IsPrefix(s, t) == Len(s) <= Len(t) /\ SubSeq(t, 1, Len(s)) = s

\* ------------------------------------------------------------------- paths
join(dir, name) == dir \o "/" \o name

\* f"{artwork_id}_p{image}_master1200{file_extension}"
formatted_filename(id, image) ==
  id \o "_p" \o ToString(image) \o "_master1200" \o ".jpg"

filename_gif(id) == id \o ".gif"
filename_zip(id) == id \o ".zip"
extracted_folder(dir, id) == join(dir, id \o "_extracted")

\* Mutation of directory_path_of: every item gets a directory of its own.
directory_path_per_item(id, page_count) == join(DOWNLOAD_FOLDER, id)

\* ArtworkDownloader.create_download_directory: the directory of an item.
directory_path_of(id, page_count) ==
  IF page_count > 1 THEN join(DOWNLOAD_FOLDER, id) ELSE DOWNLOAD_FOLDER

\* os.makedirs(path, exist_ok) raises for the empty path
\* (FileNotFoundError) and, without exist_ok, for a directory that exists.
makedirs_raises(path, existing, exist_ok) ==
  path = "" \/ (~exist_ok /\ path \in existing)

\* os.makedirs(path, exist_ok=True): the directory and its parents.
makedirs(path) ==
  {DOWNLOAD_FOLDER} \cup
  {join(DOWNLOAD_FOLDER, id) : id \in {i \in {"1", "2"} :
       path \in {join(DOWNLOAD_FOLDER, i),
                 extracted_folder(join(DOWNLOAD_FOLDER, i), i)}}} \cup
  {path}

\* ---------------------------------- helpers/pixiv_utils.py, url_utils.py
\* A url is a sequence of pieces, cut where a pattern of the rewrites can
\* begin or end: the host, the path segments the patterns name, the date
\* path, the digits of the id, "_", "p", the digits of the page number, the
\* size suffix and the extension.
MaxIndex == 10      \* page index handed to the url functions

Digit == {"0", "1", "2", "3", "4", "5", "6", "7", "8", "9"}
HOST_IMG == "https://i.pximg.net"
THUMB == "/c/250x250_80_a2"
CUSTOM_THUMB == "/custom-thumb"
IMG_MASTER == "/img-master"
IMG_ZIP_UGOIRA == "/img-zip-ugoira"
DATE_PATH == "/img/2024/01/02/03/04/05/"

\* str(image): the decimal digits.
RECURSIVE str(_)
str(n) == IF n < 10 THEN <<ToString(n)>> ELSE str(n \div 10) \o <<ToString(n % 10)>>

\* re.sub of a pattern that is the two pieces first, second: every
\* occurrence, left to right, replaced by repl.
RECURSIVE sub_pair(_, _, _, _)
sub_pair(s, first, second, repl) ==
  IF s = <<>> THEN <<>>
  ELSE IF Len(s) >= 2 /\ s[1] = first /\ s[2] = second
       THEN <<repl>> \o sub_pair(SubSeq(s, 3, Len(s)), first, second, repl)
       ELSE <<Head(s)>> \o sub_pair(Tail(s), first, second, repl)

\* re.sub of a pattern `(suffix)\.jpg$`, suffix one of suffixes: the two
\* last pieces replaced by repl.
sub_end(s, suffixes, repl) ==
  IF Len(s) >= 2 /\ s[Len(s) - 1] \in suffixes /\ s[Len(s)] = ".jpg"
  THEN SubSeq(s, 1, Len(s) - 2) \o repl
  ELSE s

\* Mutation of digit_run: the pattern p\d in place of p\d+.
digit_run_one(s) ==
  IF s = <<>> \/ Head(s) \notin Digit THEN 0 ELSE 1

\* The digits `\d+` matches at the head of s (greedy), 0 for no match.
RECURSIVE digit_run(_)
digit_run(s) ==
  IF s = <<>> \/ Head(s) \notin Digit THEN 0 ELSE 1 + digit_run(Tail(s))

\* re.sub(r"p\d+", f"p{image}", url)
RECURSIVE sub_page(_, _)
sub_page(s, image) ==
  IF s = <<>> THEN <<>>
  ELSE IF Head(s) = "p" /\ digit_run(Tail(s)) > 0
       THEN <<"p">> \o str(image) \o
            sub_page(SubSeq(s, 2 + digit_run(Tail(s)), Len(s)), image)
       ELSE <<Head(s)>> \o sub_page(Tail(s), image)

\* helpers/pixiv_utils.py
generate_image_url(artwork_url, image) ==
  LET url1 == sub_pair(artwork_url, THUMB, CUSTOM_THUMB, IMG_MASTER)
      url2 == sub_pair(url1, THUMB, IMG_MASTER, IMG_MASTER)
      url3 == sub_end(url2, {"_square1200", "_custom1200"},
                      <<"_master1200", ".jpg">>)
  IN sub_page(url3, image)

\* helpers/url_utils.py, the older revision: one re.sub per suffix.
construct_image_url(artwork_url, image) ==
  LET url1 == sub_pair(artwork_url, THUMB, CUSTOM_THUMB, IMG_MASTER)
      url2 == sub_pair(url1, THUMB, IMG_MASTER, IMG_MASTER)
      url3 == sub_end(url2, {"_square1200"}, <<"_master1200", ".jpg">>)
      url4 == sub_end(url3, {"_custom1200"}, <<"_master1200", ".jpg">>)
  IN sub_page(url4, image)

\* helpers/pixiv_utils.py
generate_gif_url(artwork_url) ==
  LET url1 == sub_pair(artwork_url, THUMB, CUSTOM_THUMB, IMG_ZIP_UGOIRA)
      url2 == sub_pair(url1, THUMB, IMG_MASTER, IMG_ZIP_UGOIRA)
  IN sub_end(url2, {"_square1200", "_custom1200"},
             <<"_ugoira600x600", ".zip">>)

\* The urls of the payload (artwork.get("url")): thumbnails of either
\* kind, and urls that are full-size already.
ThumbnailUrls ==
  {<<HOST_IMG>> \o prefix \o <<DATE_PATH, "1", "2", "_", "p">> \o page
     \o <<suffix, ext>> :
     prefix \in {<<THUMB, CUSTOM_THUMB>>, <<THUMB, IMG_MASTER>>, <<IMG_MASTER>>},
     page \in {<<"0">>, <<"3">>, <<"1", "0">>},
     suffix \in {"_square1200", "_custom1200", "_master1200"},
     ext \in {".jpg", ".png"}}

\* The url of the record of item id in the payload.
artwork_url_of(id) ==
  <<HOST_IMG, THUMB, IMG_MASTER, DATE_PATH, id, "_", "p", "0", "_square1200",
    ".jpg">>

\* ------------------------------------- create_gif: the order of the frames
\* A file name of the extraction directory is "frame_" \o digits \o ext:
\* stem holds the digits, ext the extension.
MaxListing == 3     \* files in the extraction directory

FrameStems == {<<0, 0, 0>>, <<0, 0, 1>>, <<0, 1, 0>>, <<0, 1, 1>>, <<2>>, <<1, 0>>}
FileNames ==
  {[stem |-> st, ext |-> ".jpg"] : st \in FrameStems} \cup
  {[stem |-> <<0, 0, 0>>, ext |-> ".json"], [stem |-> <<0, 0, 1>>, ext |-> ".png"]}

\* The listings os.listdir can return: the files of a directory, in any
\* order.
Listings ==
  {l \in SeqsUpTo(FileNames, MaxListing) :
     \A i, j \in 1..Len(l) : l[i] = l[j] => i = j}

\* file.endswith((".jpg", ".png", ".jpeg"))
is_frame_file(file) == file.ext \in {".jpg", ".png", ".jpeg"}

\* The extensions in the order of str comparison.
ExtOrder == <<".jpeg", ".jpg", ".json", ".png">>
ext_rank(ext) == CHOOSE i \in 1..Len(ExtOrder) : ExtOrder[i] = ext

\* str comparison of the digits: character by character; where one stem
\* ends the "." of its extension is compared, which is below every digit.
RECURSIVE stem_less(_, _)
stem_less(st, tt) ==
  IF st = <<>> THEN tt /= <<>>
  ELSE IF tt = <<>> THEN FALSE
  ELSE IF Head(st) /= Head(tt) THEN Head(st) < Head(tt)
  ELSE stem_less(Tail(st), Tail(tt))

\* a < b for two file names, as str compares them.
name_less(a, b) ==
  \/ stem_less(a.stem, b.stem)
  \/ a.stem = b.stem /\ ext_rank(a.ext) < ext_rank(b.ext)

RECURSIVE insert_sorted(_, _)
insert_sorted(file, sorted_files) ==
  IF sorted_files = <<>> THEN <<file>>
  ELSE IF name_less(file, Head(sorted_files)) THEN <<file>> \o sorted_files
  ELSE <<Head(sorted_files)>> \o insert_sorted(file, Tail(sorted_files))

\* Mutation of sorted: the files stay in the order of the listing.
listing_order(file_list) == file_list

\* sorted(list of str)
RECURSIVE sorted(_)
sorted(file_list) ==
  IF file_list = <<>> THEN <<>>
  ELSE insert_sorted(Head(file_list), sorted(Tail(file_list)))

\* create_gif: image_files = sorted([file for file in os.listdir(...) if
\* file.endswith(...)])
sorted_image_files(file_list) == sorted(SelectSeq(file_list, is_frame_file))

\* images[0].save(..., save_all=True, append_images=images[1:]): the frames
\* of the gif in order, the first of images being the base.
gif_frames(images) ==
  IF images = <<>> THEN <<>> ELSE <<images[1]>> \o SubSeq(images, 2, Len(images))

\* The number the digits of a frame name spell.
RECURSIVE stem_value(_)
stem_value(st) ==
  IF st = <<>> THEN 0
  ELSE stem_value(SubSeq(st, 1, Len(st) - 1)) * 10 + st[Len(st)]

VARIABLES
  \* the file system
  urlsFile,       \* content of URLs.txt
  ledgerExists,   \* os.path.exists(ALREADY_DOWNLOADED)
  ledger,         \* content of already_downloaded.txt
  files,          \* paths of the files under Downloads
  dirs,           \* paths of the directories
  \* main() / process_urls()
  pc,             \* position of the driver
  run,            \* launches of main() so far
  urls,           \* the list read from URLs.txt
  already_downloaded_albums,
  idx,            \* position of the for loop in urls (1-based)
  log_messages,
  \* download_album() / ArtworkDownloader
  url,            \* the url being downloaded
  artwork,        \* the matched record: [id, illustType, pageCount]
  todo,           \* matching records of the payload not yet handled
  image,          \* loop variable of process_artwork_images
  frames,         \* frame files in the extraction directory
  \* what the current download_album call has done
  pageWrites,     \* page index -> files written under that index
  imageRuns,      \* runs of process_artwork_images
  gifRuns,        \* runs of process_artwork_gifs
  handled,        \* returns of handle_artwork_type
  response,       \* the local `response` of fetch_artwork_data,
                  \* save_image_from_response or save_gif_from_response
                  \* (album_downloader.py): its status_code, and whether
                  \* that status_code was tested
  \* what the runs have done
  firstDl,        \* position of this run's first download_album call, or 0
  okPos,          \* positions this run downloaded and appended
  prevAbort,      \* position the previous run aborted on, or 0
  prevOkPos,      \* okPos of the previous run
  \* the workers of helpers/download_utils.py
  tasks,          \* task -> [pc, status, file_size, left, total_downloaded,
                  \*          completed, image_url, seen]: a worker's
                  \*          position, its response (status, Content-Length,
                  \*          chunks not yet read) and its locals; completed
                  \*          is the task's value in job_progress, image_url
                  \*          the url it requested, seen the count it read
                  \*          inside Progress.advance
  overall,        \* completed count of overall_task in overall_progress
  bodies,         \* <<path, url>>: bytes of the response to url were
                  \* written into the file at path
  \* the url functions and the frame order of create_gif, applied to inputs
  artwork_url,    \* the url argument, a sequence of url pieces
  image_url,      \* the last url returned
  prev_url,       \* the url returned before that
  applied,        \* applications of the function so far
  rewriter,       \* "generate_image_url" or "construct_image_url"
  listing,        \* os.listdir(extracted_folder): file names in any order
  image_files,    \* the sorted frame files of create_gif
  \* the worker pool
  futures,        \* task -> "pending", "running" or "done"; "none"
  manager,        \* manage_running_tasks: its position, the keys of its
                  \* futures dict, the rest of the list it iterates over
                  \* and the task it has popped
  job_progress    \* task -> [completed, visible]: the row of the task in
                  \* the job_progress display

fsVars == <<urlsFile, ledgerExists, ledger, files, dirs>>
mainVars == <<pc, run, urls, already_downloaded_albums, idx, log_messages>>
albumVars == <<url, artwork, todo, image, frames>>
callVars == <<pageWrites, imageRuns, gifRuns, handled, response>>
runVars == <<firstDl, okPos, prevAbort, prevOkPos>>
pureVars == <<artwork_url, image_url, prev_url, applied, rewriter, listing,
              image_files>>
poolVars == <<futures, manager, job_progress>>
workerVars == <<tasks, overall, bodies, pureVars, poolVars>>
vars == <<fsVars, mainVars, albumVars, callVars, runVars, workerVars>>

\* The lists of lines URLs.txt starts with.  The items 1 and 2 are
\* interchangeable, so a list names the first artwork it holds U1.
UrlLists ==
  {l \in SeqsUpTo(Urls, MaxUrls) :
     \A i \in 1..Len(l) : l[i] = U2 => \E j \in 1..(i - 1) : l[j] = U1}

\* The pageCount values of a record of the given type: a static item has
\* 1..MaxPages pages, every other item one.
PageCounts(type) == IF type \in {0, 1} THEN 1..MaxPages ELSE {1}

TaskIds == 0..(MaxPages - 1)
NoTask == [pc |-> "none", status |-> 0, file_size |-> -1, left |-> 0,
           total_downloaded |-> 0, completed |-> 0, image_url |-> "",
           seen |-> 0]

NoArtwork == [id |-> "", illustType |-> NoTag, pageCount |-> 0]
NoWrites == [k \in 0..(MaxPages - 1) |-> 0]

\* No response is bound to `response`.
NoResponse == [status |-> 0, checked |-> FALSE]

\* A response whose status_code the code tests: the response to
\* requests.get(self.url, headers=HEADERS) of fetch_artwork_data and the one
\* to requests.get(url, stream=True, headers=HEADERS) of an asset.
Checked(status) == [status |-> status, checked |-> TRUE]

\* The response of requests.get(url, headers=ALT_HEADERS), which is bound
\* to `response` after the test and handed to download_with_progress.
Unchecked(status) == [status |-> status, checked |-> FALSE]

\* No url function and no create_gif is being applied.
NoPure ==
  /\ artwork_url = <<>>
  /\ image_url = <<>>
  /\ prev_url = <<>>
  /\ applied = 0
  /\ rewriter = ""
  /\ listing = <<>>
  /\ image_files = <<>>

\* manage_running_tasks is not running.
NoManager == [pc |-> "none", futures |-> {}, keys |-> <<>>, task |-> -1]

\* No pool is running.
NoPool == futures = <<>> /\ manager = NoManager /\ job_progress = <<>>

\* Nothing has been written into any file.
NoBodies == {}

Init ==
  /\ urlsFile \in {text_of(l) : l \in UrlLists}
  /\ ledgerExists = FALSE
  /\ ledger = <<>>
  /\ files = {}
  /\ dirs = {}
  /\ pc = "idle"
  /\ run = 0
  /\ urls = <<>>
  /\ already_downloaded_albums = {}
  /\ idx = 0
  /\ log_messages = <<>>
  /\ url = ""
  /\ artwork = NoArtwork
  /\ todo = 0
  /\ image = 0
  /\ frames = 0
  /\ pageWrites = NoWrites
  /\ imageRuns = 0
  /\ gifRuns = 0
  /\ handled = 0
  /\ response = NoResponse
  /\ firstDl = 0
  /\ okPos = {}
  /\ prevAbort = 0
  /\ prevOkPos = {}
  /\ tasks = [t \in TaskIds |-> NoTask]
  /\ overall = 0
  /\ bodies = NoBodies
  /\ NoPure
  /\ NoPool

\* An exception (or sys.exit) leaves main(): URLs.txt is not cleared.
Abort == pc' = "aborted"

\* main(): urls = read_file(FILE); process_urls up to the for loop.
Main ==
  /\ pc = "idle"
  /\ run' = run + 1
  /\ urls' = read_file(urlsFile)
  /\ ledgerExists' = TRUE
  /\ ledger' = IF ledgerExists THEN ledger ELSE write_file(ledger, "", "w")
  /\ already_downloaded_albums' = Range(read_file(ledger'))
  /\ log_messages' = <<>>
  /\ idx' = 1
  /\ pc' = "loop"
  /\ UNCHANGED <<workerVars, urlsFile, files, dirs, albumVars, callVars, runVars>>

\* for url in urls: the url is not on the host, nothing is done with it.
SkipForeign ==
  /\ pc = "loop" /\ idx <= Len(urls)
  /\ ~HasHostBaseLink(urls[idx])
  /\ idx' = idx + 1
  /\ UNCHANGED <<workerVars, fsVars, pc, run, urls, already_downloaded_albums, log_messages,
                 albumVars, callVars, runVars>>

\* to_download is false: the url is logged.
SkipDownloaded ==
  /\ pc = "loop" /\ idx <= Len(urls)
  /\ HasHostBaseLink(urls[idx])
  /\ urls[idx] \in already_downloaded_albums
  /\ log_messages' = Append(log_messages, urls[idx])
  /\ idx' = idx + 1
  /\ UNCHANGED <<workerVars, fsVars, pc, run, urls, already_downloaded_albums,
                 albumVars, callVars, runVars>>

\* to_download is true: download_album(url) is called.
DownloadAlbum ==
  /\ pc = "loop" /\ idx <= Len(urls)
  /\ HasHostBaseLink(urls[idx])
  /\ urls[idx] \notin already_downloaded_albums
  /\ url' = urls[idx]
  /\ artwork' = NoArtwork
  /\ todo' = 0
  /\ image' = 0
  /\ frames' = 0
  /\ pageWrites' = NoWrites
  /\ imageRuns' = 0
  /\ gifRuns' = 0
  /\ handled' = 0
  /\ response' = NoResponse
  /\ firstDl' = IF firstDl = 0 THEN idx ELSE firstDl
  /\ pc' = "fetch"
  /\ UNCHANGED <<workerVars, fsVars, run, urls, already_downloaded_albums, idx, log_messages,
                 okPos, prevAbort, prevOkPos>>

\* response.raise_for_status(): raises for 4xx and 5xx only.
raises_for_status(status) == status >= 400 /\ status < 600

\* The records download() can find for the id in a payload: none (matches
\* is 0), or a record of some type and page count found matches times.
PayloadRecords ==
  {[matches |-> 0, illustType |-> NoTag, pageCount |-> 0]} \cup
  UNION {{[matches |-> m, illustType |-> type, pageCount |-> count] :
            m \in 1..MaxMatches, count \in PageCounts(type)} :
         type \in IllustTypes}

\* ArtworkDownloader.fetch_artwork_data up to the parsing of the page:
\* requests.get(self.url) and `if response.status_code != 200:
\* response.raise_for_status()`.
FetchArtworkData ==
  /\ pc = "fetch"
  /\ \E status \in MetaStatuses :
       IF status /= HTTP_STATUS_OK /\ raises_for_status(status)
       THEN Abort /\ UNCHANGED response
       ELSE response' = Checked(status) /\ pc' = "parse"
  /\ UNCHANGED <<workerVars, fsVars, run, urls, already_downloaded_albums, idx,
                 log_messages, albumVars, pageWrites, imageRuns, gifRuns,
                 handled, runVars>>

\* fetch_artwork_data from the parsing of the page on, then the head of
\* download(): the records of the payload that hold the id.
ParseArtworkData ==
  /\ pc = "parse"
  /\ response' = NoResponse
  /\ \/ /\ \E marker \in BOOLEAN, valid \in BOOLEAN :
             \/ ~marker                    \* soup.find(...) is None
             \/ ~valid                     \* json.loads raises
             \/ artwork_id_of(url) = ""    \* ValueError('No artwork ID found')
        /\ Abort
        /\ UNCHANGED <<artwork, todo>>
     \/ /\ artwork_id_of(url) /= ""
        /\ \E record \in PayloadRecords :
             /\ artwork' = [id |-> artwork_id_of(url),
                            illustType |-> record.illustType,
                            pageCount |-> record.pageCount]
             /\ todo' = record.matches
             /\ pc' = "records"
  /\ UNCHANGED <<workerVars, fsVars, run, urls, already_downloaded_albums, idx,
                 log_messages, url, image, frames, pageWrites, imageRuns,
                 gifRuns, handled, runVars>>

\* handle_artwork_type has returned: the next record of the payload.
NextRecord ==
  /\ handled' = handled + 1
  /\ todo' = todo - 1
  /\ pc' = "records"

\* download(): the loop over data['illust'], for a record whose userIllusts
\* hold the id: create_download_directory, then handle_artwork_type up to
\* the first request of the path it takes.
HandleRecord ==
  /\ pc = "records" /\ todo > 0
  /\ IF makedirs_raises(directory_path_of(artwork.id, artwork.pageCount), dirs, TRUE)
     THEN /\ Abort
          /\ UNCHANGED <<dirs, imageRuns, gifRuns, image, handled, todo>>
     ELSE /\ dirs' = dirs \cup
                 makedirs(directory_path_of(artwork.id, artwork.pageCount))
          /\ IF artwork.illustType \in {0, 1}
             THEN /\ imageRuns' = imageRuns + 1
                  /\ image' = 0
                  /\ pc' = "images"
                  /\ UNCHANGED <<gifRuns, handled, todo>>
             ELSE IF artwork.illustType = 2
             THEN /\ gifRuns' = gifRuns + 1
                  /\ pc' = "gif_download"
                  /\ UNCHANGED <<imageRuns, image, handled, todo>>
             ELSE /\ NextRecord
                  /\ UNCHANGED <<imageRuns, gifRuns, image>>
  /\ UNCHANGED <<workerVars, urlsFile, ledgerExists, ledger, files, run, urls,
                 already_downloaded_albums, idx, log_messages, url, artwork,
                 frames, pageWrites, response, runVars>>

\* The status codes of the second response: the code never looks at it,
\* so one status it would have accepted and one it would have refused.
SecondStatuses == {200, 404}

\* Mutation of in_range: the loop over the pages stops after the first one.
in_range_first_only(index, page_count) == index < 1

\* `for image in range(artwork.get('pageCount', 1))`: image is one of the
\* values the loop takes (index is such a value).
in_range(index, page_count) == index < page_count

\* process_artwork_images, one iteration: the request with HEADERS, then
\* save_image_from_response (album_downloader.py) up to
\* download_with_progress: it tests the status_code of that response,
\* raises for one that is not accepted, and otherwise requests the url
\* again with ALT_HEADERS and binds `response` to the second response.
DownloadImage ==
  /\ pc = "images"
  /\ \E status \in AssetStatuses :
       IF status \in {200, 403}
       THEN /\ \E second \in SecondStatuses : response' = Unchecked(second)
            /\ pc' = "image_save"
       ELSE /\ response' = Checked(status)
            /\ Abort
  /\ UNCHANGED <<workerVars, fsVars, run, urls, already_downloaded_albums, idx,
                 log_messages, albumVars, pageWrites, imageRuns, gifRuns,
                 handled, runVars>>

\* download_with_progress(response, final_path) of a page: the body of
\* `response` is written into the page file; save_image_from_response
\* returns and the loop of process_artwork_images goes on.
SaveImage ==
  /\ pc = "image_save"
  /\ files' = files \cup
       {join(directory_path_of(artwork.id, artwork.pageCount),
             formatted_filename(artwork.id, image))}
  /\ pageWrites' = [pageWrites EXCEPT ![image] = @ + 1]
  /\ image' = image + 1
  /\ response' = NoResponse
  /\ IF in_range(image + 1, artwork.pageCount)
     THEN pc' = "images" /\ UNCHANGED <<handled, todo>>
     ELSE NextRecord
  /\ UNCHANGED <<workerVars, urlsFile, ledgerExists, ledger, dirs, run, urls,
                 already_downloaded_albums, idx, log_messages, url, artwork,
                 frames, imageRuns, gifRuns, runVars>>

\* Mutation of gif_step_after: the archive and the extraction directory are
\* removed before create_gif has run.
gif_step_cleanup_first(step) ==
  CASE step = "gif_download" -> "gif_extract"
    [] step = "gif_extract" -> "gif_remove"
    [] step = "gif_remove" -> "gif_rmtree"
    [] step = "gif_rmtree" -> "gif_create"
    [] OTHER -> "return"

\* The statements of save_gif_from_response in the order of the source:
\* download_with_progress, makedirs + extractall, create_gif, os.remove,
\* shutil.rmtree, return.
gif_step_after(step) ==
  CASE step = "gif_download" -> "gif_extract"
    [] step = "gif_extract" -> "gif_create"
    [] step = "gif_create" -> "gif_remove"
    [] step = "gif_remove" -> "gif_rmtree"
    [] OTHER -> "return"

\* The statement after `step` of save_gif_from_response; after the last one
\* the function returns into handle_artwork_type, which returns.
GifGoto(step) ==
  IF gif_step_after(step) = "return"
  THEN NextRecord
  ELSE pc' = gif_step_after(step) /\ UNCHANGED <<handled, todo>>

zip_path == join(directory_path_of(artwork.id, artwork.pageCount),
                 filename_zip(artwork.id))
gif_download_path == join(directory_path_of(artwork.id, artwork.pageCount),
                          filename_gif(artwork.id))
extracted_path == extracted_folder(
                    directory_path_of(artwork.id, artwork.pageCount), artwork.id)

\* process_artwork_gifs and save_gif_from_response (album_downloader.py) up
\* to download_with_progress: the status_code of the response to the
\* request with HEADERS is tested, the url is requested again with
\* ALT_HEADERS and `response` is bound to the second response.
GifDownload ==
  /\ pc = "gif_download"
  /\ \E status \in AssetStatuses :
       IF status \in {200, 403}
       THEN /\ \E second \in SecondStatuses : response' = Unchecked(second)
            /\ pc' = "gif_save"
       ELSE /\ response' = Checked(status)
            /\ Abort
  /\ UNCHANGED <<workerVars, fsVars, run, urls, already_downloaded_albums, idx,
                 log_messages, albumVars, pageWrites, imageRuns, gifRuns,
                 handled, runVars>>

\* download_with_progress(response, final_path) of the archive: the body
\* of `response` is written as <id>.zip.
SaveArchive ==
  /\ pc = "gif_save"
  /\ files' = files \cup {zip_path}
  /\ response' = NoResponse
  /\ GifGoto("gif_download")
  /\ UNCHANGED <<workerVars, urlsFile, ledgerExists, ledger, dirs, run, urls,
                 already_downloaded_albums, idx, log_messages, url, artwork,
                 image, frames, pageWrites, imageRuns, gifRuns, runVars>>

\* os.makedirs(extracted_folder); ZipFile(final_path).extractall(...).
\* Opening fails when the archive is not there or its body is no archive
\* (BadZipFile); count is the number of frame files the directory holds
\* afterwards.
GifExtract ==
  /\ pc = "gif_extract"
  /\ dirs' = dirs \cup makedirs(extracted_path)
  /\ \E is_zip \in BOOLEAN, count \in 0..MaxFrames :
       IF is_zip /\ zip_path \in files
       THEN frames' = count /\ GifGoto("gif_extract")
       ELSE Abort /\ UNCHANGED <<frames, handled, todo>>
  /\ UNCHANGED <<workerVars, urlsFile, ledgerExists, ledger, files, run, urls,
                 already_downloaded_albums, idx, log_messages, url, artwork,
                 image, pageWrites, imageRuns, gifRuns, response, runVars>>

\* images[0].save(gif_download_path, save_all=True, append_images=...)
\* raises on a frame that does not decode: whether a file is left under
\* gif_download_path.  Image.open reads the header only; save loads the
\* base frame, then opens the path for writing, then encodes the appended
\* frames; a library build may or may not remove the file it opened.
save_leaves_file(frame_count) ==
  IF frame_count >= 2 THEN BOOLEAN ELSE {FALSE}

\* create_gif: sorted listing, Image.open of each frame, images[0].save.
\* No directory: os.listdir raises.  No frame: images[0] raises IndexError.
\* A frame that does not decode raises in Image.open (nothing written) or
\* inside save (the file may have been created).
GifCreate ==
  /\ pc = "gif_create"
  /\ \E outcome \in {"saved", "open_raises", "save_raises"},
        created \in save_leaves_file(frames) :
       IF extracted_path \notin dirs \/ frames = 0 \/ outcome = "open_raises"
       THEN Abort /\ UNCHANGED <<files, handled, todo>>
       ELSE IF outcome = "saved"
       THEN files' = files \cup {gif_download_path} /\ GifGoto("gif_create")
       ELSE /\ files' = IF created THEN files \cup {gif_download_path} ELSE files
            /\ Abort
            /\ UNCHANGED <<handled, todo>>
  /\ UNCHANGED <<workerVars, urlsFile, ledgerExists, ledger, dirs, run, urls,
                 already_downloaded_albums, idx, log_messages, url, artwork,
                 image, frames, pageWrites, imageRuns, gifRuns, response,
                 runVars>>

\* os.remove(final_path)
GifRemoveZip ==
  /\ pc = "gif_remove"
  /\ files' = files \ {zip_path}
  /\ GifGoto("gif_remove")
  /\ UNCHANGED <<workerVars, urlsFile, ledgerExists, ledger, dirs, run, urls,
                 already_downloaded_albums, idx, log_messages, url, artwork,
                 image, frames, pageWrites, imageRuns, gifRuns, response,
                 runVars>>

\* shutil.rmtree(extracted_folder)
GifRmtree ==
  /\ pc = "gif_rmtree"
  /\ dirs' = dirs \ {extracted_path}
  /\ frames' = 0
  /\ GifGoto("gif_rmtree")
  /\ UNCHANGED <<workerVars, urlsFile, ledgerExists, ledger, files, run, urls,
                 already_downloaded_albums, idx, log_messages, url, artwork,
                 image, pageWrites, imageRuns, gifRuns, response, runVars>>

\* The loop over the payload is over: download() returns, download_album
\* prints "Download complete." and returns.
DownloadComplete ==
  /\ pc = "records" /\ todo = 0
  /\ pc' = "complete"
  /\ UNCHANGED <<workerVars, fsVars, run, urls, already_downloaded_albums, idx,
                 log_messages, albumVars, callVars, runVars>>

\* No download_album call is running: its objects are gone.
NoCall ==
  /\ url' = ""
  /\ artwork' = NoArtwork
  /\ todo' = 0
  /\ image' = 0
  /\ frames' = 0
  /\ pageWrites' = NoWrites
  /\ imageRuns' = 0
  /\ gifRuns' = 0
  /\ handled' = 0
  /\ response' = NoResponse

\* write_file(ALREADY_DOWNLOADED, url, mode='a'), then the next url.
AppendLedger ==
  /\ pc = "complete"
  /\ ledger' = write_file(ledger, url, "a")
  /\ okPos' = okPos \cup {idx}
  /\ idx' = idx + 1
  /\ pc' = "loop"
  /\ NoCall
  /\ UNCHANGED <<workerVars, urlsFile, ledgerExists, files, dirs, run, urls,
                 already_downloaded_albums, log_messages,
                 firstDl, prevAbort, prevOkPos>>

\* The for loop is over: process_urls returns, main clears URLs.txt.
Finish ==
  /\ pc = "loop" /\ idx > Len(urls)
  /\ urlsFile' = write_file(urlsFile, "", "w")
  /\ pc' = "done"
  /\ UNCHANGED <<workerVars, ledgerExists, ledger, files, dirs, run, urls,
                 already_downloaded_albums, idx, log_messages, albumVars,
                 callVars, runVars>>

\* The program is launched again on the files the last run left: URLs.txt
\* is empty after a run that ended normally, untouched after an abort.
\* Nothing of the last process is left but the files.
Relaunch ==
  /\ pc \in {"done", "aborted"} /\ run < MaxRuns
  /\ prevAbort' = IF pc = "aborted" THEN idx ELSE 0
  /\ prevOkPos' = okPos
  /\ okPos' = {}
  /\ firstDl' = 0
  /\ pc' = "idle"
  /\ urls' = <<>>
  /\ already_downloaded_albums' = {}
  /\ idx' = 0
  /\ log_messages' = <<>>
  /\ NoCall
  /\ UNCHANGED <<workerVars, fsVars, run>>

Next ==
  \/ Main \/ SkipForeign \/ SkipDownloaded \/ DownloadAlbum
  \/ FetchArtworkData \/ ParseArtworkData \/ HandleRecord \/ DownloadImage \/ SaveImage
  \/ GifDownload \/ SaveArchive \/ GifExtract \/ GifCreate \/ GifRemoveZip \/ GifRmtree
  \/ DownloadComplete \/ AppendLedger \/ Finish \/ Relaunch

Spec == Init /\ [][Next]_vars

\* --------------------------------------------- helpers/download_utils.py
\* The worker functions, as the pool of download_album runs them: one task
\* per page of a static item (task t is page t), one task for the archive
\* of a frame sequence (task 0).  A task runs save_image_from_response or
\* save_gif_from_response to its end; tasks interleave.

driverVars == <<urlsFile, ledgerExists, ledger, mainVars, url, todo, image,
                callVars, runVars, pureVars, poolVars>>

\* The directory the caller hands to the workers; it exists before they
\* start.
download_path == directory_path_of(artwork.id, artwork.pageCount)

is_gif == artwork.illustType = 2

NTasks == IF is_gif THEN 1 ELSE artwork.pageCount

InitH ==
  /\ urlsFile = <<>>
  /\ ledgerExists = FALSE
  /\ ledger = <<>>
  /\ files = {}
  /\ pc = "idle"
  /\ run = 0
  /\ urls = <<>>
  /\ already_downloaded_albums = {}
  /\ idx = 0
  /\ log_messages = <<>>
  /\ url = ""
  /\ \E type \in {0, 2} : \E count \in PageCounts(type) :
       artwork = [id |-> "1", illustType |-> type, pageCount |-> count]
  /\ dirs = makedirs(download_path)
  /\ todo = 0
  /\ image = 0
  /\ frames = 0
  /\ pageWrites = NoWrites
  /\ imageRuns = 0
  /\ gifRuns = 0
  /\ handled = 0
  /\ response = NoResponse
  /\ firstDl = 0
  /\ okPos = {}
  /\ prevAbort = 0
  /\ prevOkPos = {}
  /\ tasks = [t \in TaskIds |->
                IF t < NTasks THEN [NoTask EXCEPT !.pc = "submitted"] ELSE NoTask]
  /\ overall = 0
  /\ bodies = NoBodies
  /\ NoPure
  /\ NoPool

\* Mutation of status_accepted: no status is refused.
status_accepted_always(status) == TRUE

\* Mutation of status_accepted: only 200 is let through.
status_accepted_200_only(status) == status = HTTP_STATUS_OK

\* `response.status_code not in (200, 403)` is false.
status_accepted(status) == status \in {200, 403}

\* Mutation of task_image: every worker sees the last value of the loop
\* variable of the submitting loop.
task_image_last(t) == NTasks - 1

\* The page index of task t: the value of image its image_info tuple was
\* built with when the task was submitted.
task_image(t) == t

\* The file a task streams its response into.
final_path(t) ==
  IF is_gif THEN join(download_path, filename_zip(artwork.id))
  ELSE join(download_path, formatted_filename(artwork.id, task_image(t)))

\* The pieces of a url put together.
RECURSIVE url_text(_)
url_text(pieces) ==
  IF pieces = <<>> THEN "" ELSE Head(pieces) \o url_text(Tail(pieces))

\* The url a task requests.
requested_url(t) ==
  url_text(IF is_gif THEN generate_gif_url(artwork_url_of(artwork.id))
           ELSE generate_image_url(artwork_url_of(artwork.id), task_image(t)))

\* requests.get of the asset and the check of its status: sys.exit(1) for a
\* status that is not accepted.  The response has a body of `chunks`
\* non-empty chunks and a Content-Length header or none; neither is looked
\* at for a response that is refused.
Request(t) ==
  /\ tasks[t].pc = "submitted"
  /\ \E status \in AssetStatuses, chunks \in 0..MaxChunks, has_length \in BOOLEAN :
       tasks' = [tasks EXCEPT ![t] =
                   [@ EXCEPT !.status = status,
                             !.image_url = requested_url(t),
                             !.left = IF status_accepted(status)
                                      THEN chunks ELSE 0,
                             !.file_size = IF status_accepted(status) /\ has_length
                                           THEN chunks ELSE -1,
                             !.pc = IF status_accepted(status)
                                    THEN "open" ELSE "exited"]]
  /\ UNCHANGED <<driverVars, artwork, frames, files, dirs, overall, bodies>>

\* save_image_from_response up to download_with_progress.
SaveImageRequest(t) == ~is_gif /\ Request(t)

\* save_gif_from_response up to download_with_progress.
SaveGifRequest(t) == is_gif /\ Request(t)

\* download_with_progress: Path(download_path).open("wb").
OpenFile(t) ==
  /\ tasks[t].pc = "open"
  /\ files' = files \cup {final_path(t)}
  /\ bodies' = {b \in bodies : b[1] /= final_path(t)}
  /\ tasks' = [tasks EXCEPT ![t].pc = "stream"]
  /\ UNCHANGED <<driverVars, artwork, frames, dirs, overall>>

\* (total_downloaded / file_size) * 100, rounded down.
progress_percentage(total_downloaded, file_size) ==
  IF file_size < 0 THEN -((total_downloaded * 100) \div (-file_size))
  ELSE (total_downloaded * 100) \div file_size

\* download_with_progress: one non-empty chunk is written.
WriteChunk(t) ==
  /\ tasks[t].pc = "stream" /\ tasks[t].left > 0
  /\ LET total == tasks[t].total_downloaded + 1
     IN tasks' = [tasks EXCEPT ![t] =
                    [@ EXCEPT !.left = @ - 1,
                              !.total_downloaded = total,
                              !.completed =
                                 IF is_gif THEN @
                                 ELSE progress_percentage(total, tasks[t].file_size)]]
  /\ bodies' = bodies \cup {<<final_path(t), tasks[t].image_url>>}
  /\ UNCHANGED <<driverVars, artwork, frames, files, dirs, overall>>

\* download_with_progress: the body is read, the file is closed; the
\* terminal update of a page task.
StreamEnd(t) ==
  /\ tasks[t].pc = "stream" /\ tasks[t].left = 0
  /\ tasks' = [tasks EXCEPT ![t] =
                 [@ EXCEPT !.completed = IF is_gif THEN @ ELSE 100,
                           !.pc = "advance"]]
  /\ UNCHANGED <<driverVars, artwork, frames, files, dirs, overall, bodies>>

\* Mutation of lock_free: Progress.advance without its lock.
lock_free_always == TRUE

\* No worker is inside `with self._lock` of the Progress object.
lock_free == \A u \in TaskIds : tasks[u].pc /= "advancing"

\* overall_progress.advance(overall_task): the lock is taken and the
\* completed count of the task is read.
AdvanceRead(t) ==
  /\ tasks[t].pc = "advance" /\ lock_free
  /\ tasks' = [tasks EXCEPT ![t] = [@ EXCEPT !.seen = overall,
                                             !.pc = "advancing"]]
  /\ UNCHANGED <<driverVars, artwork, frames, files, dirs, overall, bodies>>

\* overall_progress.advance(overall_task): the count plus one is stored and
\* the lock released; download_with_progress returns.
AdvanceWrite(t) ==
  /\ tasks[t].pc = "advancing"
  /\ overall' = tasks[t].seen + 1
  /\ tasks' = [tasks EXCEPT ![t] =
                 [@ EXCEPT !.seen = 0,
                           !.pc = IF is_gif THEN "gif_extract" ELSE "done"]]
  /\ UNCHANGED <<driverVars, artwork, frames, files, dirs, bodies>>

\* The statements of extract_gif in the order of the source: mkdir +
\* extractall, create_gif, unlink, rmtree, return.
extract_gif_step_after(step) ==
  CASE step = "gif_extract" -> "gif_create"
    [] step = "gif_create" -> "gif_remove"
    [] step = "gif_remove" -> "gif_rmtree"
    [] OTHER -> "done"

\* extract_gif: mkdir of the extraction directory and extractall.
ExtractGif(t) ==
  /\ tasks[t].pc = "gif_extract"
  /\ dirs' = dirs \cup makedirs(extracted_path)
  /\ \E is_zip \in BOOLEAN, count \in 0..MaxFrames :
       IF is_zip /\ zip_path \in files
       THEN /\ frames' = count
            /\ tasks' = [tasks EXCEPT ![t].pc = extract_gif_step_after("gif_extract")]
       ELSE /\ tasks' = [tasks EXCEPT ![t].pc = "raised"]
            /\ UNCHANGED frames
  /\ UNCHANGED <<driverVars, artwork, files, overall, bodies>>

\* create_gif of helpers/download_utils.py, as in GifCreate.
CreateGif(t) ==
  /\ tasks[t].pc = "gif_create"
  /\ \E outcome \in {"saved", "open_raises", "save_raises"},
        created \in save_leaves_file(frames) :
       IF extracted_path \notin dirs \/ frames = 0 \/ outcome = "open_raises"
       THEN tasks' = [tasks EXCEPT ![t].pc = "raised"] /\ UNCHANGED files
       ELSE IF outcome = "saved"
       THEN /\ files' = files \cup {gif_download_path}
            /\ tasks' = [tasks EXCEPT ![t].pc = extract_gif_step_after("gif_create")]
       ELSE /\ files' = IF created THEN files \cup {gif_download_path} ELSE files
            /\ tasks' = [tasks EXCEPT ![t].pc = "raised"]
  /\ UNCHANGED <<driverVars, artwork, frames, dirs, overall, bodies>>

\* extract_gif: Path(zip_path).unlink()
UnlinkZip(t) ==
  /\ tasks[t].pc = "gif_remove"
  /\ files' = files \ {zip_path}
  /\ tasks' = [tasks EXCEPT ![t].pc = extract_gif_step_after("gif_remove")]
  /\ UNCHANGED <<driverVars, artwork, frames, dirs, overall, bodies>>

\* extract_gif: shutil.rmtree(extracted_folder)
RmtreeExtracted(t) ==
  /\ tasks[t].pc = "gif_rmtree"
  /\ dirs' = dirs \ {extracted_path}
  /\ frames' = 0
  /\ tasks' = [tasks EXCEPT ![t].pc = extract_gif_step_after("gif_rmtree")]
  /\ UNCHANGED <<driverVars, artwork, files, overall, bodies>>

NextH ==
  \E t \in TaskIds :
    \/ SaveImageRequest(t) \/ SaveGifRequest(t)
    \/ OpenFile(t) \/ WriteChunk(t) \/ StreamEnd(t)
    \/ AdvanceRead(t) \/ AdvanceWrite(t)
    \/ ExtractGif(t) \/ CreateGif(t) \/ UnlinkZip(t) \/ RmtreeExtracted(t)

SpecH == InitH /\ [][NextH]_vars

\* ------------------------------------------ the pure functions on inputs
\* generate_image_url / construct_image_url applied to a url of the payload
\* and then to their own output, and the frame order of create_gif for a
\* listing.

\* The state of everything but the function under application.
NothingRuns ==
  /\ urlsFile = <<>>
  /\ ledgerExists = FALSE
  /\ ledger = <<>>
  /\ files = {}
  /\ dirs = {}
  /\ pc = "idle"
  /\ run = 0
  /\ urls = <<>>
  /\ already_downloaded_albums = {}
  /\ idx = 0
  /\ log_messages = <<>>
  /\ url = ""
  /\ artwork = NoArtwork
  /\ todo = 0
  /\ frames = 0
  /\ pageWrites = NoWrites
  /\ imageRuns = 0
  /\ gifRuns = 0
  /\ handled = 0
  /\ response = NoResponse
  /\ firstDl = 0
  /\ okPos = {}
  /\ prevAbort = 0
  /\ prevOkPos = {}
  /\ tasks = [t \in TaskIds |-> NoTask]
  /\ overall = 0
  /\ bodies = NoBodies

InitP ==
  /\ NothingRuns
  /\ NoPool
  /\ image_url = <<>>
  /\ prev_url = <<>>
  /\ applied = 0
  /\ image_files = <<>>
  /\ \/ /\ rewriter \in {"generate_image_url", "construct_image_url"}
        /\ artwork_url \in ThumbnailUrls
        /\ image \in 0..MaxIndex
        /\ listing = <<>>
     \/ /\ rewriter = "create_gif"
        /\ artwork_url = <<>>
        /\ image = 0
        /\ listing \in Listings

\* The url the function is applied to: the url of the payload, then the url
\* the last application returned.
url_argument == IF applied = 0 THEN artwork_url ELSE image_url

\* image_url = generate_image_url(artwork_url, image)
GenerateImageUrl ==
  /\ rewriter = "generate_image_url" /\ applied < 2
  /\ image_url' = generate_image_url(url_argument, image)
  /\ prev_url' = image_url
  /\ applied' = applied + 1
  /\ UNCHANGED <<fsVars, mainVars, albumVars, callVars, runVars, tasks, overall,
                 bodies, poolVars, artwork_url, rewriter, listing, image_files>>

\* url = construct_image_url(artwork_url, image)
ConstructImageUrl ==
  /\ rewriter = "construct_image_url" /\ applied < 2
  /\ image_url' = construct_image_url(url_argument, image)
  /\ prev_url' = image_url
  /\ applied' = applied + 1
  /\ UNCHANGED <<fsVars, mainVars, albumVars, callVars, runVars, tasks, overall,
                 bodies, poolVars, artwork_url, rewriter, listing, image_files>>

\* create_gif up to images[0].save: the frames in the order they are
\* composited.
CreateGifOrder ==
  /\ rewriter = "create_gif" /\ applied = 0
  /\ image_files' = gif_frames(sorted_image_files(listing))
  /\ applied' = 1
  /\ UNCHANGED <<fsVars, mainVars, albumVars, callVars, runVars, tasks, overall,
                 bodies, poolVars, artwork_url, image_url, prev_url, rewriter,
                 listing>>

NextP == GenerateImageUrl \/ ConstructImageUrl \/ CreateGifOrder

SpecP == InitP /\ [][NextP]_vars

\* --------------------------------------------------------- the worker pool
\* The pool the page tasks (or the archive task) of one item are submitted
\* to: at most MAX_WORKERS of them run at a time, the others wait in the
\* order of submission and start as running tasks end.
MAX_WORKERS == 10
MaxTasks == 12      \* tasks submitted for one item

InitW ==
  /\ NothingRuns
  /\ NoPure
  /\ image = 0
  /\ \E n \in 1..MaxTasks : futures = [t \in 0..(n - 1) |-> "pending"]
  /\ manager = NoManager
  /\ job_progress = <<>>

RunningTasks == {t \in DOMAIN futures : futures[t] = "running"}
PendingTasks == {t \in DOMAIN futures : futures[t] = "pending"}

\* Mutation of slot_free: a pool without a cap.
slot_free_always == TRUE

\* A worker of the pool is idle or can still be created.
slot_free == Cardinality(RunningTasks) < MAX_WORKERS

\* A worker takes the task at the head of the queue.
StartTask(t) ==
  /\ t \in PendingTasks /\ \A u \in PendingTasks : t <= u
  /\ slot_free
  /\ futures' = [futures EXCEPT ![t] = "running"]
  /\ UNCHANGED <<fsVars, mainVars, albumVars, callVars, runVars, tasks, overall,
                 bodies, pureVars, manager, job_progress>>

\* The function of a task returns or raises: its worker is free again.
EndTask(t) ==
  /\ t \in RunningTasks
  /\ futures' = [futures EXCEPT ![t] = "done"]
  /\ UNCHANGED <<fsVars, mainVars, albumVars, callVars, runVars, tasks, overall,
                 bodies, pureVars, manager, job_progress>>

NextW == \E t \in 0..MaxTasks : StartTask(t) \/ EndTask(t)

SpecW == InitW /\ [][NextW]_vars

\* An idle worker takes a waiting task, and a running task ends (every
\* request has a timeout).
SpecWFair ==
  SpecW /\ WF_vars(\E t \in 0..MaxTasks : StartTask(t))
        /\ WF_vars(\E t \in 0..MaxTasks : EndTask(t))

\* ----------------------------------------------------- manage_running_tasks
\* manage_running_tasks(futures, job_progress) polling the futures of the
\* tasks of one item while the pool runs them.  A page task ends its
\* download_with_progress with the terminal update of its row.
MaxFutures == 2     \* futures handed to manage_running_tasks

\* The row of a task as it is added: hidden, nothing completed.
NewRow == [completed |-> 0, visible |-> FALSE]

InitM ==
  /\ NothingRuns
  /\ NoPure
  /\ image = 0
  /\ \E n \in 1..MaxFutures :
       /\ futures = [t \in 0..(n - 1) |-> "pending"]
       /\ job_progress = [t \in 0..(n - 1) |-> NewRow]
       /\ manager = [NoManager EXCEPT !.pc = "while", !.futures = 0..(n - 1)]

managerKeep == <<fsVars, mainVars, albumVars, callVars, runVars, tasks, overall,
                 bodies, pureVars>>

\* list(futures.keys()): the keys in the order of insertion.
RECURSIVE keys_from(_, _)
keys_from(dict, first) ==
  IF dict = {} THEN <<>>
  ELSE IF first \in dict THEN <<first>> \o keys_from(dict \ {first}, first + 1)
  ELSE keys_from(dict, first + 1)

\* `while futures:` is evaluated: the function returns on an empty dict,
\* else the for loop starts over a copy of the keys.
ManagerWhile ==
  /\ manager.pc = "while"
  /\ manager' = IF manager.futures = {}
                THEN [manager EXCEPT !.pc = "returned"]
                ELSE [manager EXCEPT !.pc = "for",
                                     !.keys = keys_from(manager.futures, 0)]
  /\ UNCHANGED <<managerKeep, futures, job_progress>>

\* future.running()
running(future) == futures[future] = "running"

\* One turn of the for loop up to the pop: `if future.running():
\* task = futures.pop(future)`; the loop ends when the list is used up.
ManagerPoll ==
  /\ manager.pc = "for"
  /\ manager' =
       IF manager.keys = <<>> THEN [manager EXCEPT !.pc = "while"]
       ELSE IF running(Head(manager.keys))
       THEN [manager EXCEPT !.pc = "update",
                            !.task = Head(manager.keys),
                            !.futures = @ \ {Head(manager.keys)},
                            !.keys = Tail(@)]
       ELSE [manager EXCEPT !.keys = Tail(@)]
  /\ UNCHANGED <<managerKeep, futures, job_progress>>

\* job_progress.update(task, visible=True)
ManagerUpdate ==
  /\ manager.pc = "update"
  /\ job_progress' = [job_progress EXCEPT ![manager.task].visible = TRUE]
  /\ manager' = [manager EXCEPT !.pc = "for", !.task = -1]
  /\ UNCHANGED <<managerKeep, futures>>

\* The end of download_with_progress of a page task:
\* job_progress.update(task, completed=100, visible=False).
TerminalUpdate(t) ==
  /\ t \in RunningTasks
  /\ job_progress[t].completed /= 100
  /\ job_progress' = [job_progress EXCEPT ![t] = [completed |-> 100,
                                                  visible |-> FALSE]]
  /\ UNCHANGED <<managerKeep, futures, manager>>

NextM ==
  \/ ManagerWhile \/ ManagerPoll \/ ManagerUpdate
  \/ \E t \in 0..MaxFutures : StartTask(t) \/ TerminalUpdate(t) \/ EndTask(t)

SpecM == InitM /\ [][NextM]_vars

\* The polling loop goes on, an idle worker takes a waiting task, and a
\* running task ends (every request has a timeout).
SpecMFair ==
  SpecM /\ WF_vars(ManagerWhile \/ ManagerPoll \/ ManagerUpdate)
        /\ WF_vars(\E t \in 0..MaxFutures : StartTask(t))
        /\ WF_vars(\E t \in 0..MaxFutures : EndTask(t))

\* ------------------------------------------------------------------ claims

\* download() has returned for an item at least one record of the payload
\* matched.
Returned == pc = "complete" /\ handled >= 1

\* C1: when download() has returned for a static item (illustType 0 or 1)
\* with page count N, every page index 0..N-1 was written exactly once and
\* no other index was written.
C1_EachPageOnce ==
  (Returned /\ artwork.illustType \in {0, 1}) =>
    \A k \in 0..(MaxPages - 1) :
      pageWrites[k] = IF k < artwork.pageCount THEN 1 ELSE 0

\* C2: download_album is never called for a url that is a line of the
\* ledger file at the moment of the call (pc = "fetch" is the state the call
\* starts in).
C2_NoCallForLedgerLine ==
  pc = "fetch" => url \notin Range(read_file(ledger))

\* Every file of the item of the running download_album call was written by
\* that call: all pages of a static item, the gif of a frame sequence.
AllFilesWritten ==
  \/ /\ artwork.illustType \in {0, 1}
     /\ imageRuns >= 1
     /\ \A k \in 0..(artwork.pageCount - 1) : pageWrites[k] >= 1
  \/ /\ artwork.illustType = 2
     /\ gifRuns >= 1
     /\ gif_download_path \in files

\* C3: a line is appended to the ledger only when download_album has
\* returned normally and every file of the item has been written.
C3_AppendOnlyAfterAllFiles ==
  [][Len(ledger') > Len(ledger) => (pc = "complete" /\ AllFilesWritten)]_vars

\* C4: the ledger only grows: once it exists it exists from then on, what a
\* step leaves in it starts with what was in it, and so do its lines.
C4_LedgerMonotone ==
  [][/\ ledgerExists => ledgerExists'
     /\ IsPrefix(ledger, ledger')
     /\ IsPrefix(read_file(ledger), read_file(ledger'))]_vars

\* A second run has appended a line behind the lines of the first run.
C4_Witness ==
  run = 2 /\ okPos /= {} /\ prevOkPos /= {} /\ Len(read_file(ledger)) >= 2

\* The previous run downloaded and appended the urls at positions
\* 1..prevAbort-1 and aborted on the url at position prevAbort.
AbortedAfterPrefix ==
  prevAbort > 0 /\ prevOkPos = 1..(prevAbort - 1)

\* C5: a run that follows a run aborted on u(k+1) after downloading u1..uk
\* calls download_album for none of u1..uk and calls it for u(k+1): its
\* first call, if it has made one, is at position k+1, and it has made one
\* when the loop is past that position.
C5_ResumeAtAbortedUrl ==
  AbortedAfterPrefix =>
    /\ firstDl \in {0, prevAbort}
    /\ (pc /= "idle" /\ idx > prevAbort) => firstDl = prevAbort

\* C5 for url lists without a repeated line.
C5_DistinctUrls ==
  (\A i, j \in 1..Len(urls) : urls[i] = urls[j] => i = j) =>
    C5_ResumeAtAbortedUrl

\* C6: every call of handle_artwork_type that has returned ran exactly one
\* of process_artwork_images and process_artwork_gifs, and one item never
\* gets both.
C6_ExactlyOnePath ==
  pc \in {"records", "complete"} =>
    /\ imageRuns + gifRuns = handled
    /\ ~(imageRuns >= 1 /\ gifRuns >= 1)

\* The part of C6 the if/elif decides: the path follows the type and an item
\* never gets both paths.
C6_NeverBoth ==
  /\ ~(imageRuns >= 1 /\ gifRuns >= 1)
  /\ imageRuns >= 1 => artwork.illustType \in {0, 1}
  /\ gifRuns >= 1 => artwork.illustType = 2

\* C7: download_album does not return normally ("Download complete.") for an
\* item whose illustType is outside {0, 1, 2} or missing.
C7_UnknownTypeRejected ==
  Returned => artwork.illustType \in {0, 1, 2}

\* C8: when save_gif_from_response has returned normally the gif exists and
\* neither the archive nor the extraction directory does; and the archive
\* and the extraction directory are removed only when the gif exists.
C8_CleanupAfterGif ==
  /\ []((gifRuns >= 1 /\ pc \in {"records", "complete"}) =>
          /\ gif_download_path \in files
          /\ zip_path \notin files
          /\ extracted_path \notin dirs)
  /\ [][(\/ (zip_path \in files /\ zip_path \notin files')
         \/ (extracted_path \in dirs /\ extracted_path \notin dirs'))
        => gif_download_path \in files]_vars

\* save_gif_from_response has returned normally.
C8_Witness ==
  /\ gifRuns >= 1 /\ pc = "complete"
  /\ gif_download_path \in files /\ zip_path \notin files

C10_StreamIffAccepted ==
  \A t \in TaskIds :
    tasks[t].pc \notin {"none", "submitted"} =>
      /\ tasks[t].pc /= "exited" <=> tasks[t].status \in {200, 403}
      /\ (tasks[t].total_downloaded > 0 \/ final_path(t) \in files)
           => tasks[t].status \in {200, 403}

\* A response with status 403 was streamed to its file.
C10_Witness ==
  \E t \in TaskIds :
    /\ tasks[t].status = 403 /\ tasks[t].total_downloaded >= 1
    /\ final_path(t) \in files

\* C11: a page of an item with page count 1 is written directly into the
\* destination directory (Downloads), a page of an item with page count >= 2
\* into Downloads/<id>/; the directory Downloads/<id> comes into being only
\* in create_download_directory of an item <id> with page count > 1; and
\* create_download_directory does not fail, whether its directory exists
\* already or not, and leaves its directory in place.
C11_DirectoryByPageCount ==
  [][/\ pc = "image_save" =>
          \A f \in files' \ files :
            f = (IF artwork.pageCount >= 2
                 THEN "Downloads/" \o artwork.id ELSE "Downloads")
                \o "/" \o formatted_filename(artwork.id, image)
     /\ \A i \in {"1", "2"} :
          ("Downloads/" \o i \notin dirs /\ "Downloads/" \o i \in dirs')
            => (pc = "records" /\ artwork.id = i /\ artwork.pageCount > 1)
     /\ (pc = "records" /\ todo > 0) =>
          /\ pc' /= "aborted"
          /\ dirs \subseteq dirs'
          /\ (IF artwork.pageCount >= 2
              THEN "Downloads/" \o artwork.id ELSE "Downloads") \in dirs'
    ]_vars

\* A two-page item has its pages in its own directory and, with the
\* directory Downloads existing by then, a one-page item has its page
\* directly in Downloads and no directory of its own.
C11_Witness ==
  /\ "Downloads/1/1_p1_master1200.jpg" \in files
  /\ "Downloads/2_p0_master1200.jpg" \in files
  /\ "Downloads/2" \notin dirs

\* C12: fetch_artwork_data returns a payload only for a response with
\* status 200: for every other status nothing is parsed, and no record is
\* handled, no directory made and no asset requested for the item.
C12_Non200Fails ==
  pc = "parse" => response.status = HTTP_STATUS_OK

\* C13: download_album returns normally ("Download complete.") only when a
\* record of the payload matched the id: with no matching record download()
\* fails, so the url does not get to the ledger.
C13_NoMatchFails ==
  pc = "complete" => handled >= 1

\* The running download_album call is for a url without an artwork id.
NoIdInUrl == url /= "" /\ artwork_id_of(url) = ""

\* The running call has fetched a record whose type is outside {0, 1, 2}.
UnclassifiedItem == artwork.pageCount > 0 /\ artwork.illustType \notin {0, 1, 2}

\* C14: a url without an artwork id makes the call fail (it never gets past
\* fetch_artwork_data), and no step of a call for an item with a metadata or
\* classification error makes a directory, writes a file or starts a
\* download path (the asset requests).
C14_ErrorLeavesNothing ==
  /\ [](NoIdInUrl => (pc \in {"fetch", "parse", "aborted"}
                      /\ artwork = NoArtwork))
  /\ [][(NoIdInUrl \/ UnclassifiedItem) =>
          /\ dirs' = dirs
          /\ files' = files
          /\ imageRuns' >= imageRuns => imageRuns' = imageRuns
          /\ gifRuns' >= gifRuns => gifRuns' = gifRuns]_vars

\* The part of C14 about the url: a call for a url without an artwork id
\* ends in fetch_artwork_data, with nothing made, requested or written.
C14_NoIdFails ==
  /\ [](NoIdInUrl => (pc \in {"fetch", "parse", "aborted"}
                      /\ artwork = NoArtwork))
  /\ [][NoIdInUrl => (dirs' = dirs /\ files' = files /\ imageRuns' = 0
                      /\ gifRuns' = 0)]_vars

\* C15: create_gif fails when the extraction directory holds no frame file,
\* and after every step in which create_gif fails there is no file under
\* the name <id>.gif.
C15_FailedAssemblyNoGif ==
  [][\A t \in TaskIds :
       tasks[t].pc = "gif_create" =>
         /\ frames = 0 => tasks'[t].pc = "raised"
         /\ tasks'[t].pc = "raised" => gif_download_path \notin files'
    ]_vars

\* The part of C15 about an extraction directory without frame files:
\* create_gif fails (images[0] raises) and there is no <id>.gif.
C15_NoFramesNoGif ==
  [][\A t \in TaskIds :
       (tasks[t].pc = "gif_create" /\ frames = 0) =>
         (tasks'[t].pc = "raised" /\ gif_download_path \notin files')
    ]_vars

\* C16: generate_image_url and construct_image_url are idempotent in the
\* url: applied for page index k to their own output for k they return it
\* unchanged.
C16_RewriteIdempotent ==
  (rewriter \in {"generate_image_url", "construct_image_url"} /\ applied = 2)
    => image_url = prev_url

\* A custom-thumb url with page number 10 was rewritten for page 3, the
\* rewrite changing it, and rewritten again.
C16_Witness ==
  /\ rewriter = "generate_image_url" /\ applied = 2 /\ image = 3
  /\ artwork_url = <<HOST_IMG, THUMB, CUSTOM_THUMB, DATE_PATH, "1", "2", "_", "p",
                     "1", "0", "_custom1200", ".jpg">>
  /\ image_url = <<HOST_IMG, IMG_MASTER, DATE_PATH, "1", "2", "_", "p", "3",
                   "_master1200", ".jpg">>

\* C17: the frames are composited in ascending order of their file names
\* as str compares them, the first of them the base, whatever the order of
\* the listing; only frame files are taken; and for names of equal width
\* the order is ascending in the number the name spells.
C17_FramesInLexicalOrder ==
  (rewriter = "create_gif" /\ applied = 1) =>
    /\ Range(image_files) = {f \in Range(listing) : f.ext \in {".jpg", ".png", ".jpeg"}}
    /\ \A i, j \in 1..Len(image_files) :
         i < j =>
           /\ image_files[i] /= image_files[j]
           /\ name_less(image_files[i], image_files[j])
           /\ Len(image_files[i].stem) = Len(image_files[j].stem)
                => stem_value(image_files[i].stem) <= stem_value(image_files[j].stem)

\* A listing that returned frame_011, frame_000, frame_010 in this order
\* was composited as frame_000, frame_010, frame_011.
C17_Witness ==
  /\ rewriter = "create_gif" /\ applied = 1
  /\ listing = <<[stem |-> <<0, 1, 1>>, ext |-> ".jpg"],
                 [stem |-> <<0, 0, 0>>, ext |-> ".jpg"],
                 [stem |-> <<0, 1, 0>>, ext |-> ".jpg"]>>
  /\ image_files = <<[stem |-> <<0, 0, 0>>, ext |-> ".jpg"],
                     [stem |-> <<0, 1, 0>>, ext |-> ".jpg"],
                     [stem |-> <<0, 1, 1>>, ext |-> ".jpg"]>>

\* C18: whatever the interleaving of the page workers, the file named
\* <id>_p<k>_master1200.jpg holds bytes of no response but the one to the
\* url rewritten for page k, and when the worker of page k is done the file
\* exists and holds what the worker read.
C18_PageIndexBound ==
  ~is_gif =>
    \A k \in 0..(artwork.pageCount - 1) :
      LET name == artwork.id \o "_p" \o ToString(k) \o "_master1200.jpg"
          page_url == "https://i.pximg.net/img-master/img/2024/01/02/03/04/05/"
                        \o artwork.id \o "_p" \o ToString(k) \o "_master1200.jpg"
      IN /\ \A b \in bodies : b[1] = join(download_path, name) => b[2] = page_url
         /\ tasks[k].pc = "done" =>
              /\ join(download_path, name) \in files
              /\ tasks[k].total_downloaded > 0 =>
                   <<join(download_path, name), page_url>> \in bodies

\* The worker of page 1 is done before the worker of page 0, which is still
\* writing; each file holds the bytes of its own page.
C18_Witness ==
  /\ ~is_gif /\ artwork.pageCount >= 2
  /\ tasks[1].pc = "done" /\ tasks[0].pc = "stream"
  /\ tasks[0].total_downloaded > 0 /\ tasks[1].total_downloaded > 0
  /\ Cardinality(bodies) = 2

\* C20: a page worker past its stream has its task at completed = 100 with
\* no chunk left to report, and the overall counter equals the number of
\* page workers that have returned from download_with_progress: each
\* advanced it by one, none of the advances is lost, and a worker that
\* exited on its status check advanced nothing.
C20_OverallCountsPages ==
  ~is_gif =>
    /\ \A t \in TaskIds :
         tasks[t].pc \in {"advance", "advancing", "done"} =>
           (tasks[t].completed = 100 /\ tasks[t].left = 0)
    /\ overall = Cardinality({t \in TaskIds : tasks[t].pc = "done"})
    /\ \A t \in TaskIds : tasks[t].pc = "exited" => tasks[t].total_downloaded = 0

\* All the pages of a two-page item are done and the counter is at 2.
C20_Witness ==
  /\ ~is_gif /\ artwork.pageCount = 2
  /\ \A t \in 0..1 : tasks[t].pc = "done"
  /\ overall = 2

\* C19: at no time do more than MAX_WORKERS (10) tasks of an item run,
\* however many were submitted; the tasks beyond the cap wait, and every
\* waiting task starts in the end.
C19_WorkerCap ==
  /\ [](Cardinality({t \in DOMAIN futures : futures[t] = "running"}) <= 10)
  /\ <>(\A t \in DOMAIN futures : futures[t] /= "pending")

\* Twelve tasks were submitted: ten run, among them the eleventh, which
\* had to wait for a worker, and the twelfth still waits.
C19_Witness ==
  /\ DOMAIN futures = 0..11
  /\ Cardinality({t \in DOMAIN futures : futures[t] = "running"}) = 10
  /\ futures[10] = "running"
  /\ futures[11] = "pending"

\* C21: on the frame-sequence path the overall counter is advanced only
\* after extract_gif has completed (archive extracted, composite saved,
\* archive and extraction directory removed): while the counter is above
\* 0 the archive task has returned from extract_gif, and a task whose
\* assembly raised has advanced nothing.
C21_AdvanceAfterAssembly ==
  (is_gif /\ overall > 0) => tasks[0].pc = "done"

\* The driver is inside a download_album call.
InCall ==
  pc \in {"fetch", "parse", "records", "images", "image_save", "gif_download",
          "gif_save", "gif_extract",
          "gif_create", "gif_remove", "gif_rmtree", "complete"}

\* Every task the running download_album call has created has completed:
\* each run of the page loop wrote every page 0..N-1, each archive task
\* left the gif and removed the archive and the extraction directory.
AllTasksCompleted ==
  /\ handled >= imageRuns + gifRuns
  /\ imageRuns > 0 =>
       \A k \in 0..(artwork.pageCount - 1) : pageWrites[k] = imageRuns
  /\ gifRuns > 0 =>
       /\ gif_download_path \in files
       /\ zip_path \notin files
       /\ extracted_path \notin dirs

\* C22: the items are processed one after another.  download_album is
\* entered for a url only from the loop of process_urls, with no task of
\* another item created or running; while a call runs the loop stays on its
\* url; and the call is left for the next url (the url is appended to the
\* ledger) only when every task of the item has completed.
C22_OneItemAtATime ==
  [][/\ (pc' = "fetch" /\ pc /= "fetch") =>
          /\ pc = "loop"
          /\ imageRuns' = 0 /\ gifRuns' = 0 /\ pageWrites' = NoWrites
          /\ url' = urls[idx]
     /\ (InCall /\ InCall') => (idx' = idx /\ url' = url)
     /\ (InCall /\ pc' = "loop") => (pc = "complete" /\ AllTasksCompleted)]_vars

\* The second url of the list is being fetched after the two pages of the
\* first one were written and it was appended to the ledger.
C22_Witness ==
  /\ pc = "fetch" /\ idx = 2 /\ okPos = {1}
  /\ join(join(DOWNLOAD_FOLDER, "1"), formatted_filename("1", 1)) \in files
  /\ url \notin Range(read_file(ledger))

\* An asset request of the sequential downloader is answered in this step
\* with a status outside {200, 403}.
TransferFailure ==
  /\ pc \in {"images", "gif_download"}
  /\ response' /= response /\ response'.status \notin {0, 200, 403}

\* The run is over: nothing is requested, written, appended or cleared any
\* more, and what was written stays.
RunEnds == pc' = "aborted" /\ UNCHANGED <<fsVars, idx, pageWrites, image>>

\* C23: a page (or archive) request of the sequential downloader that is
\* answered with a status outside {200, 403} ends the whole run: no later
\* page is requested, no later url is processed, the url is not appended
\* to the ledger, URLs.txt is not cleared, and the files written before
\* stay; an aborted run does nothing more.
C23_TransferFailureFatal ==
  [][/\ TransferFailure => RunEnds
     /\ pc = "aborted" => (pc' = "idle" /\ UNCHANGED fsVars)]_vars

\* The part of C23 for the response whose status is tested: it ends the
\* run.
C23_CheckedFailureFatal ==
  [][/\ (TransferFailure /\ response'.checked) => RunEnds
     /\ pc = "aborted" => (pc' = "idle" /\ UNCHANGED fsVars)]_vars

\* C27: in the sequential downloader the response whose body
\* download_with_progress writes into the page file or the archive has a
\* status of 200 or 403.
C27_WrittenResponseChecked ==
  pc \in {"image_save", "gif_save"} => response.status \in {200, 403}

\* C24: manage_running_tasks terminates: when every future finishes and
\* the polling loop keeps running, the loop empties its dict and returns.
C24_ManagerReturns == <>(manager.pc = "returned")

\* The part of C24 that holds: the loop returns unless a future finished
\* while it was still a key of the dict.
C24_ReturnsUnlessMissed ==
  <>(\/ manager.pc = "returned"
     \/ \E t \in manager.futures : futures[t] = "done")

\* C25: a page task that has emitted its terminal progress event
\* (completed = 100, visible = False) is hidden in every later state.
C25_FinishedStaysHidden ==
  \A t \in DOMAIN job_progress :
    job_progress[t].completed = 100 => ~job_progress[t].visible

\* C26: every per-chunk progress value of a page task lies between 0 and
\* 100 and is 100 x bytes written so far / declared length, also for a
\* response without a Content-Length header, and no chunk lowers it.
C26_ProgressPercentage ==
  [][\A t \in TaskIds :
       (~is_gif /\ tasks[t].pc = "stream" /\ tasks'[t].pc = "stream"
        /\ tasks'[t].total_downloaded > tasks[t].total_downloaded) =>
         /\ tasks'[t].completed \in 0..100
         /\ tasks'[t].completed >= tasks[t].completed]_vars

\* The part of C26 that holds, for a response that declares its length:
\* the value is 100 x chunks written / chunks declared, within 0..100 and
\* not below the value before.
C26_DeclaredLength ==
  [][\A t \in TaskIds :
       (~is_gif /\ tasks[t].pc = "stream" /\ tasks'[t].pc = "stream"
        /\ tasks'[t].total_downloaded > tasks[t].total_downloaded
        /\ tasks[t].file_size > 0) =>
         /\ tasks'[t].completed =
              (100 * tasks'[t].total_downloaded) \div tasks[t].file_size
         /\ tasks'[t].completed \in 0..100
         /\ tasks'[t].completed >= tasks[t].completed]_vars
====
